---- MODULE Spec2Model ----
(***************************************************************************)
(* Model of the dual-pane PDF comparator (src/src/App.tsx and its older    *)
(* variant src/unnamed/part_000): zoom linking, scroll linking with the    *)
(* isSyncing latch, the contrast panel (its drag / resize / dock state,    *)
(* its own zoom, its two layers and its mirror scroll containers), the     *)
(* intake of files, the labels and the report, and the pages a viewer      *)
(* renders.                                                                *)
(*                                                                         *)
(* Units.  Scales are counted in tenths (1.0 is 10): the only deltas the   *)
(* UI passes are +0.1 and -0.1 and the initial scales are 1, so every      *)
(* scale is a whole number of tenths; arithmetic is exact.  The rounding   *)
(* of floating-point sums is modelled where the two variants are compared  *)
(* (variantRuns, in floats of FloatBits bits).  The panel's zoom is        *)
(* counted in ten-thousandths, and there the error of a floating-point sum *)
(* is a choice among FloatErrs.  Scroll positions and pointer coordinates  *)
(* are in pixels.                                                          *)
(*                                                                         *)
(* React.  A handler reads the state of the latest render, its setState    *)
(* calls are batched, and the effects whose dependencies changed run after *)
(* the re-render, before the next event is handled.  Each action below is  *)
(* one event: the handler together with the effects it triggers.           *)
(***************************************************************************)
EXTENDS Integers, FiniteSets, Sequences, TLC

(* ---------------------------- bounds ----------------------------------- *)

\* the most files one pick or drop on the central zone delivers
MaxBatch == 2

\* the length of the event sequences given to both variants side by side
MaxRunSteps == 8

\* the number of pages of the longer document
MaxPages == 2

\* largest |delta| (in tenths) passed to changeLeftZoom / changeRightZoom
MaxDelta == 2

\* how far (in tenths) a derived scale may leave [MinScale, MaxScale]
\* before the model stops following it
Overshoot == 3

\* largest scrollTop of a primary container (scrollHeight - clientHeight)
MaxScroll == 2

\* largest |x|, |y| of the panel position the model follows (pixels)
MaxPos == 1000

\* how many pointer, dock and panel-zoom operations are counted, and how many
\* of them a behaviour takes where they run next to the linked scrolling
MaxOverlayOps == 2

\* how far from 1 (in tenths) the primary scales are followed where the
\* panel's own zoom is explored over its whole range
ZoomWindow == 1

(* ------------------------ program constants ---------------------------- *)

MinScale == 5

MaxScale == 20

InitScale == 10

Variants == {"App", "part_000"}

Deltas == (-MaxDelta .. MaxDelta) \ {0}

ScaleLo == MinScale - Overshoot

ScaleHi == MaxScale + Overshoot

Files == {"a.pdf", "b.pdf"}

NoFile == "null"

\* files that are not PDFs
NonPdfFiles == {"notes.txt"}

AllFiles == Files \cup NonPdfFiles

\* File.type
FileType(f) == IF f \in Files THEN "application/pdf" ELSE "text/plain"

\* files.filter((f) => f.type === 'application/pdf')
PdfFiles(files) == SelectSeq(files, LAMBDA f : FileType(f) = "application/pdf")

PdfCount(files) == Len(PdfFiles(files))

\* the page count pdf.js reports for a document
NumPagesOf(f) == IF f = "a.pdf" THEN MaxPages ELSE 1

Sides == {"left", "right"}

\* window.innerWidth / window.innerHeight, fixed during a run
Viewports ==
  {[innerWidth |-> 1000, innerHeight |-> 800], [innerWidth |-> 240, innerHeight |-> 200]}

\* e.clientX and e.clientY of the pointer events
PointerXs == {0, 800}

PointerYs == {0, 700}

\* panelZoom is kept in ten-thousandths (1 is 10000), fine enough to hold a
\* sum that floating point has left slightly off a multiple of 0.1
MinPanelZoom == 5000

MaxPanelZoom == 20000

InitPanelZoom == 10000

PanelZoomStep == 1000

\* the error of z + 0.1 and z - 0.1 in floating point, in ten-thousandths
\* (far larger than the real one, far smaller than half a hundredth)
FloatErrs == {-1, 0, 1}

\* the zoom amounts of the zoom buttons: changeLeftZoom(-0.1), changeLeftZoom(0.1)
ButtonDeltas == {-1, 1}

VARIABLES
  variant,            \* which file variant runs: "App" or "part_000"
  leftScale,          \* useState(1)
  rightScale,         \* useState(1)
  syncZoom,           \* useState(true)
  zoomDiff,           \* useState(0)
  leftPDF,            \* useState<File | null>(null)
  rightPDF,           \* useState<File | null>(null)
  leftContainerRef,   \* [current: is the div mounted, scrollTop: its scrollTop]
  rightContainerRef,
  syncScroll,         \* useState(false)
  scrollDiff,         \* useState(0)
  isSyncing,          \* useRef(false)
  timers,             \* setTimeout(..., 0) callbacks not yet run
  pendingScroll,      \* per side: the scroll event waiting for dispatch, if any
  lastWrite,          \* the scrollTop assignment of the last scroll handler (history)
  viewport,           \* [innerWidth, innerHeight] of the window
  showContrast,       \* useState(false), the panel's visible prop
  position,           \* useState({ x: 24, y: 24 })
  dragging,           \* useState(false)
  dragOffset,         \* useRef({ x: 0, y: 0 })
  size,               \* useState({ wRatio: 0.25, hRatio: 0.25 }), ratios as n / d
  resizing,           \* useState(false)
  resizeStart,        \* useRef({ startW: 0, startH: 0, startX: 0, startY: 0 })
  docked,             \* useState(false)
  panelHist,          \* history of the current dock period and press (see NoHist)
  panelZoom,          \* useState(1), in ten-thousandths
  frontDoc,           \* useState<'left' | 'right'>('left')
  overlayLeftRef,     \* mirror container of the left document: [current, scrollTop,
                      \* loaded: has its PDFViewer got its pages (numPages > 0)]
  overlayRightRef,    \* mirror container of the right document
  lastMirrorWrite,    \* per side: the scrollTop assigned to the mirror by the last
                      \* step, or NoValue (history)
  labels,             \* useState([...]), the labels offered for assignment
  summary,            \* useState<any[]>([]), rows [label, left, right]
  contextMenu,        \* useState<any>(null): NoMenu or [side, selectedText]
  enableEtiquetar,    \* useState(false)
  leftViewer,         \* state of the left pane's PDFViewer: [numPages,
                      \* visiblePages, documentLoaded: has <Document> loaded the
                      \* file it is given now]
  rightViewer,        \* state of the right pane's PDFViewer
  variantRuns,        \* the zoom state of both file variants run side by side
                      \* on the same events in floating point (see InitRuns)
  lastOp              \* the event handled last, [op, a, b] (history)

zoomVars == <<leftScale, rightScale, syncZoom, zoomDiff>>

docVars == <<leftPDF, rightPDF>>

scrollVars ==
  <<leftContainerRef, rightContainerRef, syncScroll, scrollDiff, isSyncing,
    timers, pendingScroll, lastWrite>>

panelVars ==
  <<viewport, showContrast, position, dragging, dragOffset, size, resizing,
    resizeStart, docked, panelHist>>

overlayVars == <<panelZoom, frontDoc>>

mirrorVars == <<overlayLeftRef, overlayRightRef, lastMirrorWrite>>

labelVars == <<labels, summary, contextMenu, enableEtiquetar>>

viewerVars == <<leftViewer, rightViewer>>

vars ==
  <<variant, zoomVars, docVars, scrollVars, panelVars, overlayVars, mirrorVars,
    labelVars, viewerVars, variantRuns, lastOp>>

Max(a, b) == IF a >= b THEN a ELSE b

Min(a, b) == IF a <= b THEN a ELSE b

Op(name, a, b) == [op |-> name, a |-> a, b |-> b]

(* ------------------------- overlay mirrors ----------------------------- *)

\* a ref whose div is not rendered (PDFViewer without a file renders no container)
Unmounted == [current |-> FALSE, scrollTop |-> 0]

\* the container of a PDFViewer that has just been mounted
Mounted == [current |-> TRUE, scrollTop |-> 0]

\* element.scrollTop = v: the DOM keeps the value within [0, scrollHeight - clientHeight]
ClampScroll(v) == Max(0, Min(MaxScroll, v))

\* overlayLeftRef / overlayRightRef while the panel renders no mirror for the side
NoMirror == [current |-> FALSE, scrollTop |-> 0, loaded |-> FALSE]

\* the container of a mirror PDFViewer that has just been mounted: numPages is
\* 0 until onDocumentLoadSuccess, so no page is rendered inside it yet
NewMirror == [current |-> TRUE, scrollTop |-> 0, loaded |-> FALSE]

\* mirror.scrollTop = v: a container without pages has nothing to scroll
ClampMirror(mirror, v) == IF mirror.loaded THEN ClampScroll(v) ELSE 0

NoValue == -1

NoMirrorWrite == [left |-> NoValue, right |-> NoValue]

\* the mirror container of a side after a render: the panel renders a mirror
\* PDFViewer for a side only when visible and that side has a file
MirrorAfterRender(visible, pdf, old) ==
  IF visible /\ pdf # NoFile THEN (IF old.current THEN old ELSE NewMirror)
  ELSE NoMirror

\* [visible, leftContainerRef, rightContainerRef, leftPDF, rightPDF, leftScale,
\* rightScale]: did one of them change with this render (the ref objects never do)
MirrorDepsChanged ==
  \/ showContrast' # showContrast
  \/ leftPDF' # leftPDF \/ rightPDF' # rightPDF
  \/ leftScale' # leftScale \/ rightScale' # rightScale

\* overlayLeftRef.current.scrollTop = leftEl.scrollTop, the value assigned
MirrorCopy(primary, other) == primary.scrollTop

\* the render of ContrastPanel after a handler that is not a scroll listener,
\* followed by its mirror effect: if (!visible) return; sync(); ...
MirrorRender ==
  LET ml == MirrorAfterRender(showContrast', leftPDF', overlayLeftRef)
      mr == MirrorAfterRender(showContrast', rightPDF', overlayRightRef)
      run == showContrast' /\ MirrorDepsChanged
      wl == run /\ leftContainerRef'.current /\ ml.current
      wr == run /\ rightContainerRef'.current /\ mr.current
      vl == MirrorCopy(leftContainerRef', rightContainerRef')
      vr == MirrorCopy(rightContainerRef', leftContainerRef')
  IN  /\ overlayLeftRef' =
           IF wl THEN [ml EXCEPT !.scrollTop = ClampMirror(ml, vl)] ELSE ml
      /\ overlayRightRef' =
           IF wr THEN [mr EXCEPT !.scrollTop = ClampMirror(mr, vr)] ELSE mr
      /\ lastMirrorWrite' = [left |-> IF wl THEN vl ELSE NoValue,
                             right |-> IF wr THEN vr ELSE NoValue]

\* the native 'scroll' listeners onLeft / onRight of the mirror effect, which
\* are registered while the panel is visible; side is the scrolled primary
MirrorListener(side) ==
  LET wl == side = "left" /\ showContrast /\ overlayLeftRef.current
               /\ leftContainerRef.current
      wr == side = "right" /\ showContrast /\ overlayRightRef.current
               /\ rightContainerRef.current
      vl == MirrorCopy(leftContainerRef, rightContainerRef)
      vr == MirrorCopy(rightContainerRef, leftContainerRef)
  IN  /\ overlayLeftRef' =
           IF wl THEN [overlayLeftRef EXCEPT !.scrollTop = ClampMirror(overlayLeftRef, vl)]
           ELSE overlayLeftRef
      /\ overlayRightRef' =
           IF wr THEN [overlayRightRef EXCEPT !.scrollTop = ClampMirror(overlayRightRef, vr)]
           ELSE overlayRightRef
      /\ lastMirrorWrite' = [left |-> IF wl THEN vl ELSE NoValue,
                             right |-> IF wr THEN vr ELSE NoValue]

(* --------------------------- PDFViewer state ---------------------------- *)

\* useState(0), useState<number[]>([]) of a PDFViewer that has just mounted
NewViewer == [numPages |-> 0, visiblePages |-> <<>>, documentLoaded |-> FALSE]

\* The viewer of one pane after a render that takes its file from oldFile to
\* newFile.  The JSX wraps the viewer in an element of another type when the
\* slot is empty than when it is full, so a change between empty and full
\* mounts a new PDFViewer; a change from one file to another keeps the
\* instance with its state, and <Document> starts to load the new file.
ViewerAfterRender(oldFile, newFile, old) ==
  IF oldFile = newFile THEN old
  ELSE IF oldFile = NoFile \/ newFile = NoFile THEN NewViewer
  ELSE [old EXCEPT !.documentLoaded = FALSE]

\* The pane's scroll container after the same render: it exists while the
\* slot is full, and a new viewer has a new container at scrollTop 0.
ContainerAfterRender(oldFile, newFile, old) ==
  IF oldFile = newFile THEN old
  ELSE IF newFile = NoFile THEN Unmounted
  ELSE IF oldFile = NoFile THEN Mounted
  ELSE old

(* ------------------------------ zoom ----------------------------------- *)

\* Math.max(0.5, Math.min(2, s))
ClampScale(s) == Max(MinScale, Min(MaxScale, s))

\* the effect with syncZoom missing from its dependency list
ZoomDiffEffectNoToggleDep(sync, l, r) ==
  IF (l # leftScale \/ r # rightScale) /\ sync THEN r - l ELSE zoomDiff

\* the effect without its test of syncZoom
ZoomDiffEffectUnguarded(sync, l, r) ==
  LET depsChanged ==
        \/ sync # syncZoom
        \/ variant = "App" /\ (l # leftScale \/ r # rightScale)
  IN  IF depsChanged THEN r - l ELSE zoomDiff

\* useEffect(() => { if (syncZoom) setZoomDiff(rightScale - leftScale) }, deps)
\* deps are [syncZoom, rightScale, leftScale] in App.tsx, [syncZoom] in part_000.
\* sync, l, r are the values of the new render.
ZoomDiffEffect(sync, l, r) ==
  LET depsChanged ==
        \/ sync # syncZoom
        \/ variant = "App" /\ (l # leftScale \/ r # rightScale)
  IN  IF depsChanged /\ sync THEN r - l ELSE zoomDiff

\* the derived right scale with the offset applied the wrong way round
DerivedRightWrongSign(newScale) == newScale - zoomDiff

\* the scale the left handler gives the right side when the link is on
DerivedRight(newScale) == newScale + zoomDiff

\* the scale the right handler gives the left side when the link is on
DerivedLeft(newScale) == newScale - zoomDiff

changeLeftZoom(delta) ==
  LET newScale == ClampScale(leftScale + delta)
      r == IF syncZoom THEN DerivedRight(newScale) ELSE rightScale
  IN  /\ r \in ScaleLo .. ScaleHi
      /\ leftScale' = newScale
      /\ rightScale' = r
      /\ zoomDiff' = ZoomDiffEffect(syncZoom, newScale, r)
      /\ lastOp' = Op("changeLeftZoom", delta, 0)
      /\ UNCHANGED <<labelVars, viewerVars, variantRuns>>
      /\ UNCHANGED <<variant, panelVars, overlayVars, syncZoom, docVars, scrollVars>>
      /\ MirrorRender

changeRightZoom(delta) ==
  LET newScale == ClampScale(rightScale + delta)
      l == IF syncZoom THEN DerivedLeft(newScale) ELSE leftScale
  IN  /\ l \in ScaleLo .. ScaleHi
      /\ rightScale' = newScale
      /\ leftScale' = l
      /\ zoomDiff' = ZoomDiffEffect(syncZoom, l, newScale)
      /\ lastOp' = Op("changeRightZoom", delta, 0)
      /\ UNCHANGED <<labelVars, viewerVars, variantRuns>>
      /\ UNCHANGED <<variant, panelVars, overlayVars, syncZoom, docVars, scrollVars>>
      /\ MirrorRender

\* a toggle that also forces the right scale equal to the left one
toggleSyncZoomEqualising ==
  /\ syncZoom' = ~syncZoom
  /\ rightScale' = leftScale
  /\ zoomDiff' = IF ~syncZoom THEN 0 ELSE zoomDiff
  /\ lastOp' = Op("toggleSyncZoom", 0, 0)
  /\ UNCHANGED <<labelVars, viewerVars, variantRuns>>
  /\ UNCHANGED <<variant, panelVars, overlayVars, leftScale, docVars, scrollVars>>
  /\ MirrorRender

\* onClick={() => setSyncZoom((prev) => !prev)}
toggleSyncZoom ==
  /\ syncZoom' = ~syncZoom
  /\ zoomDiff' = ZoomDiffEffect(~syncZoom, leftScale, rightScale)
  /\ lastOp' = Op("toggleSyncZoom", 0, 0)
  /\ UNCHANGED <<labelVars, viewerVars, variantRuns>>
  /\ UNCHANGED <<variant, panelVars, overlayVars, leftScale, rightScale, docVars,
                 scrollVars>>
  /\ MirrorRender

(* ----------------------------- scroll ---------------------------------- *)

NoWrite == [side |-> "none", value |-> 0]

NoEvents == [left |-> "none", right |-> "none"]

\* the effect reading an absent container as scrollTop 0 instead of skipping
ScrollDiffEffectNoNullCheck(sync) ==
  IF sync # syncScroll /\ sync
  THEN rightContainerRef.scrollTop - leftContainerRef.scrollTop
  ELSE scrollDiff

\* useEffect(() => { if (syncScroll && left.current && right.current)
\*   setScrollDiff(right.current.scrollTop - left.current.scrollTop) }, [syncScroll])
\* sync is the value of the new render.
ScrollDiffEffect(sync) ==
  IF sync # syncScroll /\ sync /\ leftContainerRef.current /\ rightContainerRef.current
  THEN rightContainerRef.scrollTop - leftContainerRef.scrollTop
  ELSE scrollDiff

\* the guard without the latch
ScrollGuardNoLatch == syncScroll

\* if (!syncScroll || isSyncing.current) return;
ScrollGuard == syncScroll /\ ~isSyncing

\* the value written to the right container with the offset subtracted
PairedRightWrongSign(scrollTop) == scrollTop - scrollDiff

\* rightContainerRef.current.scrollTop = scrollTop + scrollDiff
PairedRight(scrollTop) == scrollTop + scrollDiff

\* leftContainerRef.current.scrollTop = scrollTop - scrollDiff
PairedLeft(scrollTop) == scrollTop - scrollDiff

\* the scroll event that an assignment of v to ref's scrollTop leaves pending:
\* the browser queues one only when the position really changes
AfterWrite(ref, v, pending) ==
  IF ClampScroll(v) = ref.scrollTop THEN pending
  ELSE IF pending = "none" THEN "echo" ELSE pending

\* setLeftPDF(file) (handleFileChange, the input is disabled while a file is loaded)
handleFileChange(side, file) ==
  /\ IF side = "left" THEN leftPDF = NoFile ELSE rightPDF = NoFile
  /\ leftPDF' = IF side = "left" THEN file ELSE leftPDF
  /\ rightPDF' = IF side = "right" THEN file ELSE rightPDF
  /\ leftContainerRef' = IF side = "left" THEN Mounted ELSE leftContainerRef
  /\ rightContainerRef' = IF side = "right" THEN Mounted ELSE rightContainerRef
  /\ leftViewer' = ViewerAfterRender(leftPDF, leftPDF', leftViewer)
  /\ rightViewer' = ViewerAfterRender(rightPDF, rightPDF', rightViewer)
  /\ lastOp' = Op("handleFileChange", PdfCount(<<file>>), 1 - PdfCount(<<file>>))
  /\ UNCHANGED <<labelVars, variantRuns>>
  /\ UNCHANGED <<variant, panelVars, overlayVars, zoomVars, syncScroll, scrollDiff,
                 isSyncing, timers, pendingScroll, lastWrite>>
  /\ MirrorRender

removeDocument(side) ==
  /\ IF side = "left" THEN leftPDF # NoFile ELSE rightPDF # NoFile
  /\ leftPDF' = IF side = "left" THEN NoFile ELSE leftPDF
  /\ rightPDF' = IF side = "right" THEN NoFile ELSE rightPDF
  /\ leftContainerRef' = IF side = "left" THEN Unmounted ELSE leftContainerRef
  /\ rightContainerRef' = IF side = "right" THEN Unmounted ELSE rightContainerRef
  /\ pendingScroll' = [pendingScroll EXCEPT ![side] = "none"]
  /\ leftViewer' = ViewerAfterRender(leftPDF, leftPDF', leftViewer)
  /\ rightViewer' = ViewerAfterRender(rightPDF, rightPDF', rightViewer)
  /\ lastOp' = Op("removeDocument", 0, 0)
  /\ UNCHANGED <<labelVars, variantRuns>>
  /\ UNCHANGED <<variant, panelVars, overlayVars, zoomVars, syncScroll, scrollDiff,
                 isSyncing, timers, lastWrite>>
  /\ MirrorRender

\* the user scrolls a primary container to position p (wheel, scrollbar, keys)
userScroll(side, p) ==
  /\ IF side = "left" THEN leftContainerRef.current /\ leftContainerRef.scrollTop # p
                      ELSE rightContainerRef.current /\ rightContainerRef.scrollTop # p
  /\ leftContainerRef' =
       IF side = "left" THEN [leftContainerRef EXCEPT !.scrollTop = p]
                        ELSE leftContainerRef
  /\ rightContainerRef' =
       IF side = "right" THEN [rightContainerRef EXCEPT !.scrollTop = p]
                         ELSE rightContainerRef
  /\ pendingScroll' = [pendingScroll EXCEPT ![side] = "user"]
  /\ lastOp' = Op("userScroll", p, 0)
  /\ UNCHANGED <<labelVars, viewerVars, variantRuns>>
  /\ UNCHANGED <<variant, panelVars, overlayVars, zoomVars, docVars, syncScroll,
                 scrollDiff, isSyncing, timers, lastWrite>>
  /\ MirrorRender

\* the browser dispatches the pending scroll event of the left container
onLeftScroll ==
  /\ pendingScroll.left # "none"
  /\ LET scrollTop == leftContainerRef.scrollTop
         v == PairedRight(scrollTop)
         write == ScrollGuard /\ rightContainerRef.current
     IN  /\ isSyncing' = (isSyncing \/ ScrollGuard)
         /\ timers' = IF ScrollGuard THEN timers + 1 ELSE timers
         /\ rightContainerRef' =
              IF write THEN [rightContainerRef EXCEPT !.scrollTop = ClampScroll(v)]
                       ELSE rightContainerRef
         /\ pendingScroll' =
              [left |-> "none",
               right |-> IF write THEN AfterWrite(rightContainerRef, v, pendingScroll.right)
                                  ELSE pendingScroll.right]
         /\ lastWrite' = IF write THEN [side |-> "right", value |-> v] ELSE NoWrite
         /\ lastOp' = Op("onLeftScroll", scrollTop, IF ScrollGuard THEN 1 ELSE 0)
  /\ MirrorListener("left")
  /\ UNCHANGED <<labelVars, viewerVars, variantRuns>>
  /\ UNCHANGED <<variant, panelVars, overlayVars, zoomVars, docVars, leftContainerRef,
                 syncScroll, scrollDiff>>

\* the browser dispatches the pending scroll event of the right container
onRightScroll ==
  /\ pendingScroll.right # "none"
  /\ LET scrollTop == rightContainerRef.scrollTop
         v == PairedLeft(scrollTop)
         write == ScrollGuard /\ leftContainerRef.current
     IN  /\ isSyncing' = (isSyncing \/ ScrollGuard)
         /\ timers' = IF ScrollGuard THEN timers + 1 ELSE timers
         /\ leftContainerRef' =
              IF write THEN [leftContainerRef EXCEPT !.scrollTop = ClampScroll(v)]
                       ELSE leftContainerRef
         /\ pendingScroll' =
              [left |-> IF write THEN AfterWrite(leftContainerRef, v, pendingScroll.left)
                                 ELSE pendingScroll.left,
               right |-> "none"]
         /\ lastWrite' = IF write THEN [side |-> "left", value |-> v] ELSE NoWrite
         /\ lastOp' = Op("onRightScroll", scrollTop, IF ScrollGuard THEN 1 ELSE 0)
  /\ MirrorListener("right")
  /\ UNCHANGED <<labelVars, viewerVars, variantRuns>>
  /\ UNCHANGED <<variant, panelVars, overlayVars, zoomVars, docVars, rightContainerRef,
                 syncScroll, scrollDiff>>

\* a callback that runs and leaves the latch set
releaseLatchNoClear ==
  /\ timers > 0
  /\ timers' = timers - 1
  /\ lastOp' = Op("releaseLatch", 0, 0)
  /\ UNCHANGED <<labelVars, viewerVars, variantRuns>>
  /\ UNCHANGED <<variant, panelVars, overlayVars, zoomVars, docVars, leftContainerRef,
                 rightContainerRef, syncScroll, scrollDiff, pendingScroll, lastWrite,
                 isSyncing>>
  /\ MirrorRender

\* setTimeout(() => (isSyncing.current = false), 0)
releaseLatch ==
  /\ timers > 0
  /\ timers' = timers - 1
  /\ isSyncing' = FALSE
  /\ lastOp' = Op("releaseLatch", 0, 0)
  /\ UNCHANGED <<labelVars, viewerVars, variantRuns>>
  /\ UNCHANGED <<variant, panelVars, overlayVars, zoomVars, docVars, leftContainerRef,
                 rightContainerRef, syncScroll, scrollDiff, pendingScroll, lastWrite>>
  /\ MirrorRender

\* onClick={() => setSyncScroll((prev) => !prev)}
toggleSyncScroll ==
  /\ syncScroll' = ~syncScroll
  /\ scrollDiff' = ScrollDiffEffect(~syncScroll)
  /\ lastOp' = Op("toggleSyncScroll", 0, 0)
  /\ UNCHANGED <<labelVars, viewerVars, variantRuns>>
  /\ UNCHANGED <<variant, panelVars, overlayVars, zoomVars, docVars, leftContainerRef,
                 rightContainerRef, isSyncing, timers, pendingScroll, lastWrite>>
  /\ MirrorRender

(* ------------------------- contrast panel ------------------------------ *)

\* a ratio n / d, d > 0
Ratio(n, d) == [n |-> n, d |-> d]

RatioLeq(a, b) == a.n * b.d <= b.n * a.d

\* the ratio stored as computed, without the 0.95 cap
CapRatioNone(r) == r

\* Math.min(0.95, r)
CapRatio(r) == IF RatioLeq(r, Ratio(95, 100)) THEN r ELSE Ratio(95, 100)

\* the pixels a ratio of `whole` pixels covers (width: `${wRatio * 100}%`)
Pixels(r, whole) == (r.n * whole) \div r.d

\* no geometry recorded: the panel is not docked
NoPreDock ==
  [position |-> [x |-> 0, y |-> 0],
   size |-> [wRatio |-> Ratio(0, 1), hRatio |-> Ratio(0, 1)]]

\* history: preDock is the position and size at the moment of docking (while
\* docked), moved tells that a pointer-move arrived during the latest dock
\* period with dragging or resizing set, pressDocked is the value of docked
\* at the latest press on the drag handle (FALSE again after a pointer-up),
\* ops counts the pointer, dock and panel-zoom operations handled so far, up
\* to MaxOverlayOps
NoHist ==
  [preDock |-> NoPreDock, moved |-> FALSE, pressDocked |-> FALSE, ops |-> 0]

\* one more operation counted
CountOp(h) == [h EXCEPT !.ops = Min(h.ops + 1, MaxOverlayOps)]

\* the move handler without its docked tests
MoveAllowedIgnoringDock(flag) == flag

\* a move that is applied whether or not a gesture is going on
MoveAllowedNoGesture(flag) == ~docked

\* if (dragging && !docked) ... if (resizing && !docked) ...
MoveAllowed(flag) == flag /\ ~docked

\* a show / hide whose sync also runs from the mirrors to the primaries: the
\* primaries take the scrollTop of the mirrors that have just been mounted
toggleContrastSyncingBack ==
  /\ showContrast' = ~showContrast
  /\ leftContainerRef' =
       IF ~showContrast THEN [leftContainerRef EXCEPT !.scrollTop = NewMirror.scrollTop]
       ELSE leftContainerRef
  /\ rightContainerRef' =
       IF ~showContrast THEN [rightContainerRef EXCEPT !.scrollTop = NewMirror.scrollTop]
       ELSE rightContainerRef
  /\ lastOp' = Op("toggleContrast", 0, 0)
  /\ UNCHANGED <<labelVars, viewerVars, variantRuns>>
  /\ UNCHANGED <<variant, zoomVars, docVars, syncScroll, scrollDiff, isSyncing, timers,
                 pendingScroll, lastWrite, overlayVars, viewport, position, dragging,
                 dragOffset, size, resizing, resizeStart, docked, panelHist>>
  /\ MirrorRender

\* onChange={() => setShowContrast((v) => !v)} and onClose
toggleContrast ==
  /\ showContrast' = ~showContrast
  /\ lastOp' = Op("toggleContrast", 0, 0)
  /\ UNCHANGED <<labelVars, viewerVars, variantRuns>>
  /\ UNCHANGED <<variant, zoomVars, docVars, scrollVars, overlayVars, viewport,
                 position, dragging, dragOffset, size, resizing, resizeStart,
                 docked, panelHist>>
  /\ MirrorRender

\* an offset that forgets where the panel is: the pointer itself
PressOffsetNoPosition(x, y) == [x |-> x, y |-> y]

\* { x: e.clientX - position.x, y: e.clientY - position.y }
PressOffset(x, y) == [x |-> x - position.x, y |-> y - position.y]

\* mouse button pressed on the panel; onHandle: the target is inside
\* .contrast-drag-handle (the top bar, its buttons included)
onMouseDown(onHandle, x, y) ==
  /\ showContrast
  /\ dragging' = (dragging \/ onHandle)
  /\ dragOffset' = IF onHandle THEN PressOffset(x, y) ELSE dragOffset
  /\ panelHist' = CountOp(IF onHandle THEN [panelHist EXCEPT !.pressDocked = docked]
                                      ELSE panelHist)
  /\ lastOp' = Op(IF onHandle THEN "onMouseDown" ELSE "onMouseDownOffHandle", x, y)
  /\ UNCHANGED <<labelVars, viewerVars, variantRuns>>
  /\ UNCHANGED <<variant, zoomVars, docVars, scrollVars, overlayVars, viewport,
                 showContrast, position, size, resizing, resizeStart, docked>>
  /\ MirrorRender

\* mouse button pressed on the resize grip, which is rendered only when !docked
startResize(x, y) ==
  /\ showContrast
  /\ ~docked
  /\ resizing' = TRUE
  /\ resizeStart' = [startW |-> Pixels(size.wRatio, viewport.innerWidth),
                     startH |-> Pixels(size.hRatio, viewport.innerHeight),
                     startX |-> x, startY |-> y]
  /\ panelHist' = CountOp(panelHist)
  /\ lastOp' = Op("startResize", x, y)
  /\ UNCHANGED <<labelVars, viewerVars, variantRuns>>
  /\ UNCHANGED <<variant, zoomVars, docVars, scrollVars, overlayVars, viewport,
                 showContrast, position, dragging, dragOffset, size, docked>>
  /\ MirrorRender

\* window 'mousemove' listener
onMouseMove(x, y) ==
  LET newPos == [x |-> x - dragOffset.x, y |-> y - dragOffset.y]
      dx == x - resizeStart.startX
      dy == y - resizeStart.startY
      newW == Max(260, resizeStart.startW + dx)
      newH == Max(220, resizeStart.startH + dy)
  IN  /\ position' = IF MoveAllowed(dragging) THEN newPos ELSE position
      /\ position'.x \in -MaxPos .. MaxPos
      /\ position'.y \in -MaxPos .. MaxPos
      /\ size' =
           IF MoveAllowed(resizing)
           THEN [wRatio |-> CapRatio(Ratio(newW, viewport.innerWidth)),
                 hRatio |-> CapRatio(Ratio(newH, viewport.innerHeight))]
           ELSE size
      /\ panelHist' =
           CountOp(IF docked /\ (dragging \/ resizing)
                   THEN [panelHist EXCEPT !.moved = TRUE] ELSE panelHist)
      /\ lastOp' = Op("onMouseMove", x, y)
      /\ UNCHANGED <<labelVars, viewerVars, variantRuns>>
      /\ UNCHANGED <<variant, zoomVars, docVars, scrollVars, overlayVars, viewport,
                     showContrast, dragging, dragOffset, resizing, resizeStart,
                     docked>>
      /\ MirrorRender

\* a pointer-up that ends a drag only
onMouseUpKeepsResizing ==
  /\ dragging' = FALSE
  /\ panelHist' = CountOp([panelHist EXCEPT !.pressDocked = FALSE])
  /\ lastOp' = Op("onMouseUp", 0, 0)
  /\ UNCHANGED <<labelVars, viewerVars, variantRuns>>
  /\ UNCHANGED <<variant, zoomVars, docVars, scrollVars, overlayVars, viewport,
                 showContrast, position, dragOffset, size, resizing, resizeStart,
                 docked>>
  /\ MirrorRender

\* window 'mouseup' listener
onMouseUp ==
  /\ dragging' = FALSE
  /\ resizing' = FALSE
  /\ panelHist' = CountOp([panelHist EXCEPT !.pressDocked = FALSE])
  /\ lastOp' = Op("onMouseUp", 0, 0)
  /\ UNCHANGED <<labelVars, viewerVars, variantRuns>>
  /\ UNCHANGED <<variant, zoomVars, docVars, scrollVars, overlayVars, viewport,
                 showContrast, position, dragOffset, size, resizeStart, docked>>
  /\ MirrorRender

\* the sum kept as floating point left it, without toFixed(2)
ToFixed2None(raw) == raw

\* +(raw).toFixed(2): the nearest hundredth
ToFixed2(raw) == ((raw + 50) \div 100) * 100

\* setPanelZoom((z) => Math.max(0.5, +(z - 0.1).toFixed(2)))
panelZoomOut ==
  /\ showContrast
  /\ \E e \in FloatErrs :
       /\ panelZoom' = Max(MinPanelZoom, ToFixed2(panelZoom - PanelZoomStep + e))
       /\ lastOp' = Op("panelZoomOut", e, 0)
  /\ panelHist' = CountOp(panelHist)
  /\ UNCHANGED <<labelVars, viewerVars, variantRuns>>
  /\ UNCHANGED <<variant, zoomVars, docVars, scrollVars, frontDoc, viewport,
                 showContrast, position, dragging, dragOffset, size, resizing,
                 resizeStart, docked>>
  /\ MirrorRender

\* setPanelZoom((z) => Math.min(2, +(z + 0.1).toFixed(2)))
panelZoomIn ==
  /\ showContrast
  /\ \E e \in FloatErrs :
       /\ panelZoom' = Min(MaxPanelZoom, ToFixed2(panelZoom + PanelZoomStep + e))
       /\ lastOp' = Op("panelZoomIn", e, 0)
  /\ panelHist' = CountOp(panelHist)
  /\ UNCHANGED <<labelVars, viewerVars, variantRuns>>
  /\ UNCHANGED <<variant, zoomVars, docVars, scrollVars, frontDoc, viewport,
                 showContrast, position, dragging, dragOffset, size, resizing,
                 resizeStart, docked>>
  /\ MirrorRender

\* setFrontDoc(showLeftOnTop ? 'right' : 'left'). The two layers change what
\* they render. With both files loaded each layer keeps its PDFViewer and its
\* div, now attached to the other overlay ref and showing the other file: the
\* div keeps its scrollTop and its pages, or is left without pages at 0 while
\* the file is loaded again (both outcomes are allowed). With one file loaded
\* its mirror PDFViewer is mounted anew in the other layer. The mirror effect
\* does not run: frontDoc is not one of its dependencies.
toggleFrontDoc ==
  /\ showContrast
  /\ frontDoc' = IF frontDoc = "left" THEN "right" ELSE "left"
  /\ IF leftPDF # NoFile /\ rightPDF # NoFile
     THEN \E kept \in BOOLEAN :
            /\ overlayLeftRef' = IF kept THEN overlayRightRef ELSE NewMirror
            /\ overlayRightRef' = IF kept THEN overlayLeftRef ELSE NewMirror
     ELSE /\ overlayLeftRef' = IF leftPDF # NoFile THEN NewMirror ELSE NoMirror
          /\ overlayRightRef' = IF rightPDF # NoFile THEN NewMirror ELSE NoMirror
  /\ lastMirrorWrite' = NoMirrorWrite
  /\ lastOp' = Op("toggleFrontDoc", 0, 0)
  /\ UNCHANGED <<labelVars, viewerVars, variantRuns>>
  /\ UNCHANGED <<variant, zoomVars, docVars, scrollVars, panelVars, panelZoom>>

\* onDocumentLoadSuccess of a mirror PDFViewer: setNumPages(nextNumPages)
onMirrorLoadSuccess(side) ==
  /\ IF side = "left" THEN overlayLeftRef.current /\ ~overlayLeftRef.loaded
                      ELSE overlayRightRef.current /\ ~overlayRightRef.loaded
  /\ overlayLeftRef' = IF side = "left" THEN [overlayLeftRef EXCEPT !.loaded = TRUE]
                                        ELSE overlayLeftRef
  /\ overlayRightRef' = IF side = "right" THEN [overlayRightRef EXCEPT !.loaded = TRUE]
                                          ELSE overlayRightRef
  /\ lastMirrorWrite' = NoMirrorWrite
  /\ lastOp' = Op("onMirrorLoadSuccess", 0, 0)
  /\ UNCHANGED <<labelVars, viewerVars, variantRuns>>
  /\ UNCHANGED <<variant, zoomVars, docVars, scrollVars, panelVars, overlayVars>>

\* what a layer of the panel renders: a mirror PDFViewer of a side at a scale
\* (in tenths times ten-thousandths), or no viewer
NoLayer == [side |-> "none", scale |-> 0]

\* a left mirror given the right primary's scale
LeftMirrorWrongScale == [side |-> "left", scale |-> rightScale * panelZoom]

\* <PDFViewer file={leftPDF} scale={leftScale * panelZoom} containerRef={overlayLeftRef} />
LeftMirror == [side |-> "left", scale |-> leftScale * panelZoom]

\* <PDFViewer file={rightPDF} scale={rightScale * panelZoom} containerRef={overlayRightRef} />
RightMirror == [side |-> "right", scale |-> rightScale * panelZoom]

\* a back layer that shows the document of frontDoc, as the front layer does
BackLayerOfFrontDoc ==
  IF ~showContrast \/ (rightPDF = NoFile /\ leftPDF = NoFile) THEN NoLayer
  ELSE IF frontDoc = "left"
       THEN (IF leftPDF # NoFile THEN LeftMirror ELSE NoLayer)
       ELSE (IF rightPDF # NoFile THEN RightMirror ELSE NoLayer)

\* Capa de atras (opacity 1)
BackLayer ==
  IF ~showContrast \/ (rightPDF = NoFile /\ leftPDF = NoFile) THEN NoLayer
  ELSE IF frontDoc = "left"
       THEN (IF rightPDF # NoFile THEN RightMirror ELSE NoLayer)
       ELSE (IF leftPDF # NoFile THEN LeftMirror ELSE NoLayer)

\* Capa de adelante (opacity 0.5)
FrontLayer ==
  IF ~showContrast \/ (rightPDF = NoFile /\ leftPDF = NoFile) THEN NoLayer
  ELSE IF frontDoc = "left"
       THEN (IF leftPDF # NoFile THEN LeftMirror ELSE NoLayer)
       ELSE (IF rightPDF # NoFile THEN RightMirror ELSE NoLayer)

\* the history kept by a dock toggle
DockHist ==
  IF docked THEN [panelHist EXCEPT !.preDock = NoPreDock]
  ELSE [panelHist EXCEPT !.preDock = [position |-> position, size |-> size],
                         !.moved = FALSE]

\* a dock toggle that puts the panel back at its initial place when undocking
toggleDockedResetting ==
  /\ showContrast
  /\ docked' = ~docked
  /\ position' = IF docked THEN [x |-> 24, y |-> 24] ELSE position
  /\ panelHist' = CountOp(DockHist)
  /\ lastOp' = Op("toggleDocked", 0, 0)
  /\ UNCHANGED <<labelVars, viewerVars, variantRuns>>
  /\ UNCHANGED <<variant, zoomVars, docVars, scrollVars, overlayVars, viewport,
                 showContrast, dragging, dragOffset, size, resizing, resizeStart>>
  /\ MirrorRender

\* onClick of the dock button: setDocked((d) => !d)
toggleDocked ==
  /\ showContrast
  /\ docked' = ~docked
  /\ panelHist' = CountOp(DockHist)
  /\ lastOp' = Op("toggleDocked", 0, 0)
  /\ UNCHANGED <<labelVars, viewerVars, variantRuns>>
  /\ UNCHANGED <<variant, zoomVars, docVars, scrollVars, overlayVars, viewport,
                 showContrast, position, dragging, dragOffset, size, resizing,
                 resizeStart>>
  /\ MirrorRender

(* ------------------------- document intake ----------------------------- *)

\* The drop handler of one pane.  The handler returns at once when the slot
\* is full, and the JSX attaches it only while the slot is empty.
handleDrop(side, file) ==
  LET accepted == FileType(file) = "application/pdf"
  IN  /\ IF side = "left" THEN leftPDF = NoFile ELSE rightPDF = NoFile
      /\ leftPDF' = IF accepted /\ side = "left" THEN file ELSE leftPDF
      /\ rightPDF' = IF accepted /\ side = "right" THEN file ELSE rightPDF
      /\ leftContainerRef' = ContainerAfterRender(leftPDF, leftPDF', leftContainerRef)
      /\ rightContainerRef' =
           ContainerAfterRender(rightPDF, rightPDF', rightContainerRef)
      /\ leftViewer' = ViewerAfterRender(leftPDF, leftPDF', leftViewer)
      /\ rightViewer' = ViewerAfterRender(rightPDF, rightPDF', rightViewer)
      /\ lastOp' = Op("handleDrop", PdfCount(<<file>>), 1 - PdfCount(<<file>>))
      /\ UNCHANGED <<labelVars, variantRuns>>
      /\ UNCHANGED <<variant, panelVars, overlayVars, zoomVars, syncScroll, scrollDiff,
                     isSyncing, timers, pendingScroll, lastWrite>>
      /\ MirrorRender

\* the lists of distinct files a picker or a drop can deliver
FileLists ==
  {fs \in UNION {[1 .. n -> AllFiles] : n \in 1 .. MaxBatch} :
     \A i, j \in DOMAIN fs : i # j => fs[i] # fs[j]}

\* The central picker and drop zone, rendered while both slots are empty.
handleBothFilesChange(files) ==
  LET pdfFiles == PdfFiles(files)
      l == IF Len(pdfFiles) = 1
             THEN (IF leftPDF = NoFile THEN pdfFiles[1] ELSE leftPDF)
             ELSE IF Len(pdfFiles) >= 2 THEN pdfFiles[1] ELSE leftPDF
      r == IF Len(pdfFiles) = 1
             THEN (IF leftPDF # NoFile /\ rightPDF = NoFile
                     THEN pdfFiles[1] ELSE rightPDF)
             ELSE IF Len(pdfFiles) >= 2 THEN pdfFiles[2] ELSE rightPDF
  IN  /\ leftPDF = NoFile /\ rightPDF = NoFile
      /\ leftPDF' = l
      /\ rightPDF' = r
      /\ leftContainerRef' = ContainerAfterRender(leftPDF, l, leftContainerRef)
      /\ rightContainerRef' = ContainerAfterRender(rightPDF, r, rightContainerRef)
      /\ leftViewer' = ViewerAfterRender(leftPDF, l, leftViewer)
      /\ rightViewer' = ViewerAfterRender(rightPDF, r, rightViewer)
      /\ lastOp' = Op("handleBothFilesChange", Len(pdfFiles),
                      Len(files) - Len(pdfFiles))
      /\ UNCHANGED <<labelVars, variantRuns>>
      /\ UNCHANGED <<variant, panelVars, overlayVars, zoomVars, syncScroll, scrollDiff,
                     isSyncing, timers, pendingScroll, lastWrite>>
      /\ MirrorRender

\* prevSummary.map((item) => ({ label, left: item.right, right: item.left }))
SwapRows(rows) ==
  [i \in DOMAIN rows |->
     [label |-> rows[i].label, left |-> rows[i].right, right |-> rows[i].left]]

\* The swap button, disabled while both slots are empty.  When both slots are
\* full the two viewers stay mounted and get each other's file.
swapDocuments ==
  /\ leftPDF # NoFile \/ rightPDF # NoFile
  /\ leftPDF' = rightPDF
  /\ rightPDF' = leftPDF
  /\ summary' = SwapRows(summary)
  /\ leftContainerRef' = ContainerAfterRender(leftPDF, rightPDF, leftContainerRef)
  /\ rightContainerRef' = ContainerAfterRender(rightPDF, leftPDF, rightContainerRef)
  /\ leftViewer' = ViewerAfterRender(leftPDF, rightPDF, leftViewer)
  /\ rightViewer' = ViewerAfterRender(rightPDF, leftPDF, rightViewer)
  /\ pendingScroll' =
       [pendingScroll EXCEPT
          !["left"] = IF rightPDF = NoFile THEN "none" ELSE @,
          !["right"] = IF leftPDF = NoFile THEN "none" ELSE @]
  /\ lastOp' = Op("swapDocuments", 0, 0)
  /\ UNCHANGED <<labels, contextMenu, enableEtiquetar, variantRuns>>
  /\ UNCHANGED <<variant, panelVars, overlayVars, zoomVars, syncScroll, scrollDiff,
                 isSyncing, timers, lastWrite>>
  /\ MirrorRender

\* the refresh button: both slots are emptied
refreshDocuments ==
  /\ leftPDF' = NoFile
  /\ rightPDF' = NoFile
  /\ leftContainerRef' = ContainerAfterRender(leftPDF, NoFile, leftContainerRef)
  /\ rightContainerRef' = ContainerAfterRender(rightPDF, NoFile, rightContainerRef)
  /\ leftViewer' = ViewerAfterRender(leftPDF, NoFile, leftViewer)
  /\ rightViewer' = ViewerAfterRender(rightPDF, NoFile, rightViewer)
  /\ pendingScroll' = NoEvents
  /\ lastOp' = Op("refreshDocuments", 0, 0)
  /\ UNCHANGED <<labelVars, variantRuns>>
  /\ UNCHANGED <<variant, panelVars, overlayVars, zoomVars, syncScroll, scrollDiff,
                 isSyncing, timers, lastWrite>>
  /\ MirrorRender

(* ------------------------- pages of a viewer ---------------------------- *)

\* the elements of the set S in ascending order: sort((a, b) => a - b)
RECURSIVE SortedSeq(_)
SortedSeq(S) ==
  IF S = {} THEN <<>>
  ELSE LET m == CHOOSE x \in S : \A y \in S : x <= y
       IN  <<m>> \o SortedSeq(S \ {m})

\* the elements of an array
Elements(seq) == {seq[i] : i \in DOMAIN seq}

\* [...new Set([...prev, ...visible])].sort((a, b) => a - b)
MergeVisible(prev, visible) == SortedSeq(Elements(prev) \cup visible)

\* the file given to the viewer of a pane
FileOf(side) == IF side = "left" THEN leftPDF ELSE rightPDF

\* the state of the viewer of a pane
ViewerOf(side) == IF side = "left" THEN leftViewer ELSE rightViewer

\* <Document> has loaded the file of a pane and calls onDocumentLoadSuccess:
\* setNumPages(nextNumPages)
onDocumentLoadSuccess(side) ==
  LET loaded == [ViewerOf(side) EXCEPT !.numPages = NumPagesOf(FileOf(side)),
                                       !.documentLoaded = TRUE]
  IN  /\ FileOf(side) # NoFile
      /\ FileType(FileOf(side)) = "application/pdf"
      /\ ~ViewerOf(side).documentLoaded
      /\ leftViewer' = IF side = "left" THEN loaded ELSE leftViewer
      /\ rightViewer' = IF side = "right" THEN loaded ELSE rightViewer
      /\ lastOp' = Op("onDocumentLoadSuccess", 0, 0)
      /\ UNCHANGED <<labelVars, variantRuns>>
      /\ UNCHANGED <<variant, panelVars, overlayVars, zoomVars, docVars, scrollVars>>
      /\ MirrorRender

\* The IntersectionObserver of a pane reports the page wrappers that have
\* come into view.  The wrappers exist once the document is loaded, one for
\* each page of 1 .. numPages.
observerCallback(side, visible) ==
  LET merged == [ViewerOf(side) EXCEPT
                   !.visiblePages = MergeVisible(@, visible)]
  IN  /\ FileOf(side) # NoFile
      /\ ViewerOf(side).documentLoaded
      /\ visible # {}
      /\ visible \subseteq 1 .. ViewerOf(side).numPages
      /\ leftViewer' = IF side = "left" THEN merged ELSE leftViewer
      /\ rightViewer' = IF side = "right" THEN merged ELSE rightViewer
      /\ lastOp' = Op("observerCallback", 0, 0)
      /\ UNCHANGED <<labelVars, variantRuns>>
      /\ UNCHANGED <<variant, panelVars, overlayVars, zoomVars, docVars, scrollVars>>
      /\ MirrorRender

(* ------------------------------ labels ---------------------------------- *)

\* The list of labels at the start: the first two of the seventeen of the
\* source, the list after the fifteen others were removed in the labels
\* dialog (the handlers treat every label alike).
InitLabels == <<"Poliza", "Inicio">>

\* the label names the user can type into the "Nueva etiqueta" field
LabelNames == {"Poliza", "Inicio"}

\* what window.getSelection()?.toString() || '' can give
Texts == {"", "x"}

\* the value of a row's side that has never been assigned (undefined)
NoText == "undefined"

\* JavaScript truthiness of a row's side
Truthy(t) == t # NoText /\ t # ""

\* contextMenu === null
NoMenu == [side |-> "none", selectedText |-> ""]

\* array.includes(x)
Includes(seq, x) == \E i \in DOMAIN seq : seq[i] = x

\* array.findIndex((item) => item.label === label), 0 for -1
FindIndex(rows, label) ==
  IF \E i \in DOMAIN rows : rows[i].label = label
    THEN CHOOSE i \in DOMAIN rows :
           /\ rows[i].label = label
           /\ \A j \in 1 .. i - 1 : rows[j].label # label
    ELSE 0

\* array.filter((l) => l !== label)
WithoutLabel(seq, label) == SelectSeq(seq, LAMBDA l : l # label)

\* array.filter((item) => item.label !== label)
WithoutRow(rows, label) == SelectSeq(rows, LAMBDA item : item.label # label)

\* onClick={() => setEnableEtiquetar((prev) => !prev)}
toggleEtiquetar ==
  /\ enableEtiquetar' = ~enableEtiquetar
  /\ lastOp' = Op("toggleEtiquetar", 0, 0)
  /\ UNCHANGED <<labels, summary, contextMenu, viewerVars, variantRuns>>
  /\ UNCHANGED <<variant, panelVars, overlayVars, zoomVars, docVars, scrollVars>>
  /\ MirrorRender

\* handleLeftContextMenu / handleRightContextMenu: a right click on a pane
\* opens the menu with the selected text
handleContextMenu(side, text) ==
  /\ enableEtiquetar
  /\ contextMenu' = [side |-> side, selectedText |-> text]
  /\ lastOp' = Op("handleContextMenu", 0, 0)
  /\ UNCHANGED <<labels, summary, enableEtiquetar, viewerVars, variantRuns>>
  /\ UNCHANGED <<variant, panelVars, overlayVars, zoomVars, docVars, scrollVars>>
  /\ MirrorRender

\* a mousedown outside the open menu closes it
handleClickOutside ==
  /\ contextMenu # NoMenu
  /\ contextMenu' = NoMenu
  /\ lastOp' = Op("handleClickOutside", 0, 0)
  /\ UNCHANGED <<labels, summary, enableEtiquetar, viewerVars, variantRuns>>
  /\ UNCHANGED <<variant, panelVars, overlayVars, zoomVars, docVars, scrollVars>>
  /\ MirrorRender

\* the row of a label after the selected text was assigned to one side
AssignedRow(row, side, text) ==
  IF side = "left" THEN [row EXCEPT !.left = text] ELSE [row EXCEPT !.right = text]

\* A click on a label of the open menu (the menu lists filteredLabels, a part
\* of labels): the selected text goes into the label's row, and a label whose
\* row has text on both sides leaves the list.
handleLabelSelect(label) ==
  LET index == FindIndex(summary, label)
      fresh == [label |-> label, left |-> NoText, right |-> NoText]
      row == AssignedRow(IF index # 0 THEN summary[index] ELSE fresh,
                         contextMenu.side, contextMenu.selectedText)
  IN  /\ contextMenu # NoMenu
      /\ Includes(labels, label)
      /\ summary' = IF index # 0 THEN [summary EXCEPT ![index] = row]
                     ELSE Append(summary, row)
      /\ labels' = IF Truthy(row.left) /\ Truthy(row.right)
                    THEN WithoutLabel(labels, label) ELSE labels
      /\ contextMenu' = NoMenu
      /\ lastOp' = Op("handleLabelSelect", 0, 0)
      /\ UNCHANGED <<enableEtiquetar, viewerVars, variantRuns>>
      /\ UNCHANGED <<variant, panelVars, overlayVars, zoomVars, docVars, scrollVars>>
      /\ MirrorRender

\* the remove button of a row of the report
removeFromSummary(label) ==
  /\ FindIndex(summary, label) # 0
  /\ summary' = WithoutRow(summary, label)
  /\ labels' = IF ~Includes(labels, label) THEN Append(labels, label) ELSE labels
  /\ lastOp' = Op("removeFromSummary", 0, 0)
  /\ UNCHANGED <<contextMenu, enableEtiquetar, viewerVars, variantRuns>>
  /\ UNCHANGED <<variant, panelVars, overlayVars, zoomVars, docVars, scrollVars>>
  /\ MirrorRender

\* the remove button of a label of the labels dialog
removeLabel(labelToRemove) ==
  /\ Includes(labels, labelToRemove)
  /\ labels' = WithoutLabel(labels, labelToRemove)
  /\ summary' = WithoutRow(summary, labelToRemove)
  /\ lastOp' = Op("removeLabel", 0, 0)
  /\ UNCHANGED <<contextMenu, enableEtiquetar, viewerVars, variantRuns>>
  /\ UNCHANGED <<variant, panelVars, overlayVars, zoomVars, docVars, scrollVars>>
  /\ MirrorRender

\* an add that does not look whether the list has the label already
addNewLabelUnchecked(newLabel) ==
  /\ labels' = IF newLabel # "" THEN Append(labels, newLabel) ELSE labels
  /\ lastOp' = Op("addNewLabel", 0, 0)
  /\ UNCHANGED <<summary, contextMenu, enableEtiquetar, viewerVars, variantRuns>>
  /\ UNCHANGED <<variant, panelVars, overlayVars, zoomVars, docVars, scrollVars>>
  /\ MirrorRender

\* the "Agregar" button of the labels dialog
addNewLabel(newLabel) ==
  /\ labels' = IF newLabel # "" /\ ~Includes(labels, newLabel)
                THEN Append(labels, newLabel) ELSE labels
  /\ lastOp' = Op("addNewLabel", 0, 0)
  /\ UNCHANGED <<summary, contextMenu, enableEtiquetar, viewerVars, variantRuns>>
  /\ UNCHANGED <<variant, panelVars, overlayVars, zoomVars, docVars, scrollVars>>
  /\ MirrorRender

(* ----------------------- the two variants in floats --------------------- *)

\* The zoom code of App.tsx and of part_000 run side by side on the same
\* events, in binary floating point: a number has FloatBits significant bits
\* (an IEEE double has 53) and is written as a count of 1 / FloatUnit, so 1.0
\* is FloatUnit.  0.1 is not such a number, as it is not a double, and every
\* sum and difference is rounded to the nearest one.
FloatBits == 5

FloatUnit == 256

Abs(x) == IF x < 0 THEN -x ELSE x

\* the distance between neighbouring floats at the magnitude a >= 0
RECURSIVE Ulp(_)
Ulp(a) == IF a < 2 ^ FloatBits THEN 1 ELSE 2 * Ulp(a \div 2)

\* the float nearest to x, the even one of two equally near
RoundFloat(x) ==
  LET a == Abs(x)
      q == Ulp(a)
      lo == (a \div q) * q
      rem == a - lo
      up == 2 * rem > q \/ (2 * rem = q /\ (lo \div q) % 2 = 1)
      m == IF up THEN lo + q ELSE lo
  IN  IF x < 0 THEN -m ELSE m

\* the float that a decimal literal of t tenths denotes (0.5, 2, 0.1, 1)
FloatOfTenths(t) == RoundFloat((2 * Abs(t) * FloatUnit + 10) \div 20) * (IF t < 0 THEN -1 ELSE 1)

\* Math.max(0.5, Math.min(2, s))
ClampFloat(s) == Max(FloatOfTenths(MinScale), Min(FloatOfTenths(MaxScale), s))

\* useState(1), useState(1), useState(true), useState(0)
InitFloat ==
  [leftScale |-> FloatOfTenths(InitScale), rightScale |-> FloatOfTenths(InitScale),
   syncZoom |-> TRUE, zoomDiff |-> 0]

\* changeLeftZoom(delta) on the state s of a variant
FloatChangeLeft(s, delta) ==
  LET newScale == ClampFloat(RoundFloat(s.leftScale + FloatOfTenths(delta)))
  IN  [s EXCEPT !.leftScale = newScale,
                !.rightScale = IF s.syncZoom THEN RoundFloat(newScale + s.zoomDiff)
                               ELSE @]

\* changeRightZoom(delta) on the state s of a variant
FloatChangeRight(s, delta) ==
  LET newScale == ClampFloat(RoundFloat(s.rightScale + FloatOfTenths(delta)))
  IN  [s EXCEPT !.rightScale = newScale,
                !.leftScale = IF s.syncZoom THEN RoundFloat(newScale - s.zoomDiff)
                              ELSE @]

\* setSyncZoom((prev) => !prev)
FloatToggle(s) == [s EXCEPT !.syncZoom = ~@]

\* a zoomDiff effect that part_000 never runs
FloatZoomDiffEffectAppOnly(v, old, new) ==
  IF v = "App" /\ old # new /\ new.syncZoom
    THEN [new EXCEPT !.zoomDiff = RoundFloat(new.rightScale - new.leftScale)]
    ELSE new

\* The zoomDiff effect of variant v after the render that took the state
\* from old to new: deps [syncZoom, rightScale, leftScale] in App.tsx,
\* [syncZoom] in part_000.
FloatZoomDiffEffect(v, old, new) ==
  LET depsChanged ==
        \/ new.syncZoom # old.syncZoom
        \/ v = "App" /\ (new.leftScale # old.leftScale
                           \/ new.rightScale # old.rightScale)
  IN  IF depsChanged /\ new.syncZoom
        THEN [new EXCEPT !.zoomDiff = RoundFloat(new.rightScale - new.leftScale)]
        ELSE new

\* Both runs at the start.  drifted records that a zoomDiff which App.tsx
\* recomputed after a scale change was not the zoomDiff it had; steps counts
\* the events.
InitRuns == [app |-> InitFloat, part000 |-> InitFloat, drifted |-> FALSE, steps |-> 0]

\* the scales the side-by-side run follows
FloatInBounds(s) ==
  /\ s.leftScale \in FloatOfTenths(ScaleLo) .. FloatOfTenths(ScaleHi)
  /\ s.rightScale \in FloatOfTenths(ScaleLo) .. FloatOfTenths(ScaleHi)

\* both runs after an event that takes App.tsx to a and part_000 to p
RunsAfter(a, p, scaleChange) ==
  [app |-> FloatZoomDiffEffect("App", variantRuns.app, a),
   part000 |-> FloatZoomDiffEffect("part_000", variantRuns.part000, p),
   drifted |-> \/ variantRuns.drifted
               \/ /\ scaleChange
                  /\ FloatZoomDiffEffect("App", variantRuns.app, a).zoomDiff
                       # variantRuns.app.zoomDiff,
   steps |-> variantRuns.steps + 1]

appVars ==
  <<variant, zoomVars, docVars, scrollVars, panelVars, overlayVars, mirrorVars,
    labelVars, viewerVars>>

\* a click on a zoom button of the left pane, in both variants
bothChangeLeftZoom(delta) ==
  /\ variantRuns' = RunsAfter(FloatChangeLeft(variantRuns.app, delta),
                              FloatChangeLeft(variantRuns.part000, delta), TRUE)
  /\ FloatInBounds(variantRuns'.app) /\ FloatInBounds(variantRuns'.part000)
  /\ lastOp' = Op("bothChangeLeftZoom", delta, 0)
  /\ UNCHANGED appVars

\* a click on a zoom button of the right pane, in both variants
bothChangeRightZoom(delta) ==
  /\ variantRuns' = RunsAfter(FloatChangeRight(variantRuns.app, delta),
                              FloatChangeRight(variantRuns.part000, delta), TRUE)
  /\ FloatInBounds(variantRuns'.app) /\ FloatInBounds(variantRuns'.part000)
  /\ lastOp' = Op("bothChangeRightZoom", delta, 0)
  /\ UNCHANGED appVars

\* a click on the zoom link button, in both variants
bothToggleSyncZoom ==
  /\ variantRuns' = RunsAfter(FloatToggle(variantRuns.app),
                              FloatToggle(variantRuns.part000), FALSE)
  /\ lastOp' = Op("bothToggleSyncZoom", 0, 0)
  /\ UNCHANGED appVars

(* --------------------------- specifications ----------------------------- *)

Init ==
  /\ variant \in Variants
  /\ leftScale = InitScale
  /\ rightScale = InitScale
  /\ syncZoom = TRUE
  /\ zoomDiff = 0
  /\ leftPDF = NoFile
  /\ rightPDF = NoFile
  /\ leftContainerRef = Unmounted
  /\ rightContainerRef = Unmounted
  /\ syncScroll = FALSE
  /\ scrollDiff = 0
  /\ isSyncing = FALSE
  /\ timers = 0
  /\ pendingScroll = NoEvents
  /\ lastWrite = NoWrite
  /\ viewport \in Viewports
  /\ showContrast = FALSE
  /\ position = [x |-> 24, y |-> 24]
  /\ dragging = FALSE
  /\ dragOffset = [x |-> 0, y |-> 0]
  /\ size = [wRatio |-> Ratio(25, 100), hRatio |-> Ratio(25, 100)]
  /\ resizing = FALSE
  /\ resizeStart = [startW |-> 0, startH |-> 0, startX |-> 0, startY |-> 0]
  /\ docked = FALSE
  /\ panelHist = NoHist
  /\ panelZoom = InitPanelZoom
  /\ frontDoc = "left"
  /\ overlayLeftRef = NoMirror
  /\ overlayRightRef = NoMirror
  /\ lastMirrorWrite = NoMirrorWrite
  /\ labels = InitLabels
  /\ summary = <<>>
  /\ contextMenu = NoMenu
  /\ enableEtiquetar = FALSE
  /\ leftViewer = NewViewer
  /\ rightViewer = NewViewer
  /\ variantRuns = InitRuns
  /\ lastOp = Op("init", 0, 0)

NextZoom ==
  \/ \E d \in Deltas : changeLeftZoom(d)
  \/ \E d \in Deltas : changeRightZoom(d)
  \/ toggleSyncZoom

SpecZoom == Init /\ [][NextZoom]_vars

NextScroll ==
  \/ \E side \in Sides, file \in Files : handleFileChange(side, file)
  \/ \E side \in Sides : removeDocument(side)
  \/ \E side \in Sides, p \in 0 .. MaxScroll : userScroll(side, p)
  \/ onLeftScroll
  \/ onRightScroll
  \/ releaseLatch
  \/ toggleSyncScroll

SpecScroll == Init /\ [][NextScroll]_vars

\* the ways a file enters or leaves a slot
NextIntake ==
  \/ \E side \in Sides, file \in AllFiles : handleFileChange(side, file)
  \/ \E side \in Sides, file \in AllFiles : handleDrop(side, file)
  \/ \E files \in FileLists : handleBothFilesChange(files)
  \/ \E side \in Sides : removeDocument(side)
  \/ swapDocuments
  \/ refreshDocuments

SpecIntake == Init /\ [][NextIntake]_vars

NextPanel ==
  \/ toggleContrast
  \/ \E onHandle \in BOOLEAN, x \in PointerXs, y \in PointerYs : onMouseDown(onHandle, x, y)
  \/ \E x \in PointerXs, y \in PointerYs : startResize(x, y)
  \/ \E x \in PointerXs, y \in PointerYs : onMouseMove(x, y)
  \/ onMouseUp
  \/ toggleDocked

\* ContrastPanel exists in App.tsx only
InitPanel == Init /\ variant = "App"

SpecPanel == InitPanel /\ [][NextPanel]_vars

\* the same in the 1000 x 800 window
InitZoomPanel == InitPanel /\ viewport.innerWidth = 1000

\* The browser runs every callback given to setTimeout: a release that is
\* pending is not put off for ever.
SpecScrollFair == InitZoomPanel /\ [][NextScroll]_vars /\ WF_vars(releaseLatch)

\* the zoom events, given to both variants
NextVariants ==
  \/ \E d \in ButtonDeltas : variantRuns.steps < MaxRunSteps /\ bothChangeLeftZoom(d)
  \/ \E d \in ButtonDeltas : variantRuns.steps < MaxRunSteps /\ bothChangeRightZoom(d)
  \/ variantRuns.steps < MaxRunSteps /\ bothToggleSyncZoom

SpecVariants == InitZoomPanel /\ [][NextVariants]_vars

\* loading, replacing and removing documents, and the pages coming into view
NextViewer ==
  \/ \E side \in Sides, file \in Files : handleFileChange(side, file)
  \/ \E side \in Sides : removeDocument(side)
  \/ swapDocuments
  \/ refreshDocuments
  \/ \E side \in Sides : onDocumentLoadSuccess(side)
  \/ \E side \in Sides, visible \in SUBSET (1 .. MaxPages) :
       observerCallback(side, visible)

SpecViewer == InitZoomPanel /\ [][NextViewer]_vars

\* the label operations, with one document to swap
NextLabels ==
  \/ handleFileChange("left", "a.pdf")
  \/ swapDocuments
  \/ toggleEtiquetar
  \/ \E side \in Sides, text \in Texts : handleContextMenu(side, text)
  \/ handleClickOutside
  \/ \E label \in LabelNames : handleLabelSelect(label)
  \/ \E label \in LabelNames : removeFromSummary(label)
  \/ \E label \in LabelNames : removeLabel(label)
  \/ \E label \in LabelNames \cup {""} : addNewLabel(label)

SpecLabels == InitZoomPanel /\ [][NextLabels]_vars

\* the mirrors of the panel, next to the scrolling of the primary viewers
NextMirror ==
  \/ toggleContrast
  \/ toggleFrontDoc
  \/ \E side \in Sides : onMirrorLoadSuccess(side)
  \/ \E side \in Sides : handleFileChange(side, "a.pdf")
  \/ \E side \in Sides : removeDocument(side)
  \/ \E side \in Sides, p \in {0, MaxScroll} : userScroll(side, p)
  \/ onLeftScroll
  \/ onRightScroll
  \/ releaseLatch
  \/ toggleSyncScroll

SpecMirror == InitZoomPanel /\ [][NextMirror]_vars

\* every operation of the panel, next to the linked scrolling of the primary
\* viewers, each with one input
NextOverlay ==
  \/ toggleContrast
  \/ toggleFrontDoc
  \/ \E side \in Sides : onMirrorLoadSuccess(side)
  \/ panelHist.ops < MaxOverlayOps /\ onMouseDown(TRUE, 800, 700)
  \/ panelHist.ops < MaxOverlayOps /\ startResize(0, 0)
  \/ panelHist.ops < MaxOverlayOps /\ onMouseMove(0, 0)
  \/ panelHist.ops < MaxOverlayOps /\ onMouseUp
  \/ panelHist.ops < MaxOverlayOps /\ toggleDocked
  \/ panelHist.ops < MaxOverlayOps /\ panelZoomOut
  \/ panelHist.ops < MaxOverlayOps /\ panelZoomIn
  \/ \E side \in Sides : handleFileChange(side, "a.pdf")
  \/ \E side \in Sides : userScroll(side, MaxScroll)
  \/ onLeftScroll
  \/ onRightScroll
  \/ releaseLatch
  \/ toggleSyncScroll

SpecOverlay == InitZoomPanel /\ [][NextOverlay]_vars

ScalesNearInit ==
  /\ leftScale \in InitScale - ZoomWindow .. InitScale + ZoomWindow
  /\ rightScale \in InitScale - ZoomWindow .. InitScale + ZoomWindow

\* the panel's own zoom, next to the zoom of the two primary viewers
NextPanelZoom ==
  \/ toggleContrast
  \/ panelZoomOut
  \/ panelZoomIn
  \/ toggleFrontDoc
  \/ \E d \in ButtonDeltas : changeLeftZoom(d) /\ ScalesNearInit'
  \/ \E d \in ButtonDeltas : changeRightZoom(d) /\ ScalesNearInit'
  \/ toggleSyncZoom
  \/ \E side \in Sides : handleFileChange(side, "a.pdf")

SpecPanelZoom == InitZoomPanel /\ [][NextPanelZoom]_vars

(* ======================== zoom linking claims ========================== *)

InRange(s) == s \in MinScale .. MaxScale

StrictlyInside(s) == MinScale < s /\ s < MaxScale

LeftZoomStep == lastOp'.op = "changeLeftZoom"

RightZoomStep == lastOp'.op = "changeRightZoom"

\* C1: after any sequence of changeLeftZoom / changeRightZoom calls and link
\* toggles, both leftScale and rightScale are within [0.5, 2.0], the derived
\* side included.
C1_ScalesInRange == InRange(leftScale) /\ InRange(rightScale)

\* C3: with the link on, a change on one side sets that side to
\* clamp(current + delta) and the other side to clamp(newScale + zoomOffset)
\* (left drives) or clamp(newScale - zoomOffset) (right drives).
C3_DerivedSideClamped ==
  [][ /\ (syncZoom /\ LeftZoomStep) =>
           /\ leftScale' = ClampScale(leftScale + lastOp'.a)
           /\ rightScale' = ClampScale(leftScale' + zoomDiff)
      /\ (syncZoom /\ RightZoomStep) =>
           /\ rightScale' = ClampScale(rightScale + lastOp'.a)
           /\ leftScale' = ClampScale(rightScale' - zoomDiff) ]_vars

C5_ToggleFrame ==
  [][ lastOp'.op = "toggleSyncZoom" =>
        /\ leftScale' = leftScale
        /\ rightScale' = rightScale
        /\ syncZoom' = ~syncZoom
        /\ zoomDiff' = IF syncZoom' THEN rightScale - leftScale ELSE zoomDiff ]_vars

C5_Witness ==
  /\ lastOp.op = "toggleSyncZoom"
  /\ syncZoom
  /\ leftScale # rightScale
  /\ zoomDiff = rightScale - leftScale

LeftScrollStep == lastOp'.op = "onLeftScroll"

RightScrollStep == lastOp'.op = "onRightScroll"

\* C2: while scroll linking is on, the scroll event raised by a corrective
\* write causes no further write to either container, whatever the order of
\* that echo event's delivery and the next-tick release of the isSyncing latch.
C2_EchoCausesNoWrite ==
  [][ /\ (LeftScrollStep /\ syncScroll /\ pendingScroll.left = "echo")
           => lastWrite'.side = "none"
      /\ (RightScrollStep /\ syncScroll /\ pendingScroll.right = "echo")
           => lastWrite'.side = "none" ]_vars

\* C7: with scroll linking on and no echo in flight, a scroll event on the
\* left container at position p writes p + scrollOffset to the right
\* container's scrollTop, one on the right container writes p - scrollOffset
\* to the left container's scrollTop; the driver's own scrollTop and the
\* stored scrollOffset are not changed by the handler.
C7_PairedWrite ==
  [][ /\ (LeftScrollStep /\ syncScroll /\ ~isSyncing /\ rightContainerRef.current) =>
           /\ lastWrite' = [side |-> "right",
                            value |-> leftContainerRef.scrollTop + scrollDiff]
           /\ rightContainerRef'.scrollTop =
                ClampScroll(leftContainerRef.scrollTop + scrollDiff)
           /\ leftContainerRef' = leftContainerRef
           /\ scrollDiff' = scrollDiff
      /\ (RightScrollStep /\ syncScroll /\ ~isSyncing /\ leftContainerRef.current) =>
           /\ lastWrite' = [side |-> "left",
                            value |-> rightContainerRef.scrollTop - scrollDiff]
           /\ leftContainerRef'.scrollTop =
                ClampScroll(rightContainerRef.scrollTop - scrollDiff)
           /\ rightContainerRef' = rightContainerRef
           /\ scrollDiff' = scrollDiff ]_vars

C7_Witness ==
  /\ lastOp.op = "onLeftScroll"
  /\ lastOp.b = 1
  /\ scrollDiff # 0
  /\ lastWrite = [side |-> "right", value |-> lastOp.a + scrollDiff]
  /\ rightContainerRef.scrollTop = lastWrite.value
  /\ leftContainerRef.scrollTop = lastOp.a

\* C8: a scroll event handled while scroll linking is off, or while the
\* isSyncing latch is set, is a no-op: no container's scrollTop is written,
\* scrollOffset and the latch are unchanged and no latch release is scheduled.
C8_GuardedNoOp ==
  [][ ((LeftScrollStep \/ RightScrollStep) /\ (~syncScroll \/ isSyncing)) =>
        /\ lastWrite'.side = "none"
        /\ leftContainerRef' = leftContainerRef
        /\ rightContainerRef' = rightContainerRef
        /\ scrollDiff' = scrollDiff
        /\ isSyncing' = isSyncing
        /\ timers' = timers ]_vars

C8_Witness ==
  /\ lastOp.op \in {"onLeftScroll", "onRightScroll"}
  /\ lastOp.b = 0
  /\ syncScroll
  /\ isSyncing
  /\ leftContainerRef.current /\ rightContainerRef.current
  /\ lastWrite.side = "none"

\* the scrollTop the claim reads for a side: that of its container, 0 when the
\* side has no container
CurrentScrollTop(ref) == IF ref.current THEN ref.scrollTop ELSE 0

\* C9 as stated: turning scroll linking on always sets scrollOffset to the
\* current rightScrollTop - leftScrollTop, also when a primary container does
\* not exist.
C9_AlwaysRecomputed ==
  [][ (lastOp'.op = "toggleSyncScroll" /\ syncScroll') =>
        scrollDiff' = CurrentScrollTop(rightContainerRef)
                      - CurrentScrollTop(leftContainerRef) ]_vars

\* C9 amended: turning scroll linking on sets scrollOffset to the current
\* rightScrollTop - leftScrollTop when both primary containers exist, and
\* leaves scrollOffset unchanged when either of them does not exist.
C9_RecomputedWhenBothExist ==
  [][ (lastOp'.op = "toggleSyncScroll" /\ syncScroll') =>
        scrollDiff' =
          IF leftContainerRef.current /\ rightContainerRef.current
          THEN rightContainerRef.scrollTop - leftContainerRef.scrollTop
          ELSE scrollDiff ]_vars

C9_Witness ==
  /\ lastOp.op = "toggleSyncScroll"
  /\ syncScroll
  /\ ~(leftContainerRef.current /\ rightContainerRef.current)
  /\ scrollDiff # 0

(* ======================== contrast panel claims ======================== *)

\* C10: while the overlay panel is docked, no pointer-move changes the stored
\* position or the stored size, whatever pointer-down and pointer-up events
\* preceded it.
C10_DockedMoveKeepsGeometry ==
  [][ (docked /\ lastOp'.op = "onMouseMove") =>
        (position' = position /\ size' = size) ]_vars

C10_Witness ==
  /\ lastOp.op = "onMouseMove"
  /\ docked
  /\ dragging
  /\ resizing
  /\ position # [x |-> lastOp.a - dragOffset.x, y |-> lastOp.b - dragOffset.y]
  /\ lastOp.a # resizeStart.startX

\* C11: toggling docked changes only the docked flag (position, size and
\* the rest of the panel state are unchanged by the toggle), and undocking
\* finds position and size exactly equal to the values they had when the
\* panel was docked, whatever pointer events arrived while it was docked.
C11_DockRoundTrip ==
  [][ lastOp'.op = "toggleDocked" =>
        /\ docked' = ~docked
        /\ UNCHANGED <<position, size, dragging, dragOffset, resizing, resizeStart,
                       showContrast, viewport>>
        /\ docked => /\ position' = panelHist.preDock.position
                     /\ size' = panelHist.preDock.size ]_vars

C11_Witness ==
  /\ lastOp.op = "toggleDocked"
  /\ ~docked
  /\ panelHist.moved
  /\ dragging
  /\ position # [x |-> 24, y |-> 24]
  /\ size.wRatio # Ratio(25, 100)

\* a pointer-move handled while resizing and not docked: a step of a resize
ResizeStep == lastOp'.op = "onMouseMove" /\ resizing /\ ~docked

RatioPositive(r) == r.n > 0 /\ r.d > 0

\* the smaller of two ratios
MinRatio(a, b) == IF RatioLeq(a, b) THEN a ELSE b

\* C12 (as stated): after a resize step both ratios are in (0, 0.95] and not
\* below 260 / viewportWidth and 220 / viewportHeight.
C12_RatiosCappedAndAboveFloor ==
  [][ ResizeStep =>
        /\ RatioPositive(size'.wRatio) /\ RatioPositive(size'.hRatio)
        /\ RatioLeq(size'.wRatio, Ratio(95, 100))
        /\ RatioLeq(size'.hRatio, Ratio(95, 100))
        /\ RatioLeq(Ratio(260, viewport.innerWidth), size'.wRatio)
        /\ RatioLeq(Ratio(220, viewport.innerHeight), size'.hRatio) ]_vars

\* C12 (amended): after a resize step both ratios are in (0, 0.95] and not
\* below min(0.95, 260 / viewportWidth) and min(0.95, 220 / viewportHeight):
\* the 0.95 cap is applied last and wins over the pixel floor when the
\* viewport is narrower than 260 / 0.95 or lower than 220 / 0.95 pixels.
C12_RatiosCappedFloorUnderCap ==
  [][ ResizeStep =>
        /\ RatioPositive(size'.wRatio) /\ RatioPositive(size'.hRatio)
        /\ RatioLeq(size'.wRatio, Ratio(95, 100))
        /\ RatioLeq(size'.hRatio, Ratio(95, 100))
        /\ RatioLeq(MinRatio(Ratio(95, 100), Ratio(260, viewport.innerWidth)),
                    size'.wRatio)
        /\ RatioLeq(MinRatio(Ratio(95, 100), Ratio(220, viewport.innerHeight)),
                    size'.hRatio) ]_vars

\* a resize step was taken in a viewport where the pixel floor exceeds the cap
C12_Witness ==
  /\ lastOp.op = "onMouseMove"
  /\ resizing /\ ~docked
  /\ ~RatioLeq(Ratio(260, viewport.innerWidth), Ratio(95, 100))
  /\ size.wRatio = Ratio(95, 100)
  /\ size.hRatio = Ratio(95, 100)

\* a pointer-move handled while dragging and not docked: a step of a drag
DragStep == lastOp'.op = "onMouseMove" /\ dragging /\ ~docked

\* a press on the drag handle
HandlePress == lastOp'.op = "onMouseDown"

\* C13: a press on the handle records offset = pointer - position; while
\* dragging and not docked every pointer-move sets position to pointer -
\* recorded offset; a move to the press point right after the press leaves
\* the position unchanged; a drag (dragging, not resizing) never changes size.
C13_DragFollowsPointer ==
  [][ /\ HandlePress =>
           /\ dragging'
           /\ dragOffset' = [x |-> lastOp'.a - position.x,
                             y |-> lastOp'.b - position.y]
           /\ position' = position /\ size' = size
      /\ DragStep =>
           position' = [x |-> lastOp'.a - dragOffset.x,
                        y |-> lastOp'.b - dragOffset.y]
      /\ (DragStep /\ lastOp.op = "onMouseDown"
            /\ lastOp'.a = lastOp.a /\ lastOp'.b = lastOp.b) =>
           position' = position
      /\ (DragStep /\ ~resizing) => size' = size ]_vars

\* a drag has moved the panel away from where it was pressed
C13_Witness ==
  /\ lastOp.op = "onMouseMove"
  /\ dragging /\ ~resizing /\ ~docked
  /\ dragOffset = [x |-> 800 - 24, y |-> 700 - 24]
  /\ position = [x |-> 0 - dragOffset.x, y |-> 0 - dragOffset.y]

Idle == ~dragging /\ ~resizing

\* C14: a pointer-up, docked or not, leaves neither dragging nor resizing
\* set and changes neither position nor size; while neither flag is set a
\* pointer-move changes neither position nor size; and a flag is set again
\* only by a press on the drag handle or on the resize grip.
C14_PointerUpReturnsToIdle ==
  [][ /\ lastOp'.op = "onMouseUp" =>
           (Idle' /\ position' = position /\ size' = size)
      /\ (Idle /\ lastOp'.op = "onMouseMove") =>
           (Idle' /\ position' = position /\ size' = size)
      /\ (Idle /\ ~Idle') => lastOp'.op \in {"onMouseDown", "startResize"} ]_vars

\* a pointer-up arrived while docked, after the panel had been dragged and
\* resized
C14_Witness ==
  /\ lastOp.op = "onMouseUp"
  /\ Idle /\ docked
  /\ panelHist.moved
  /\ position # [x |-> 24, y |-> 24]
  /\ size.wRatio # Ratio(25, 100)

\* C15: the panel is in exactly one of Idle, Dragging, Resizing: the
\* dragging and resizing flags are never both true.
C15_ExactlyOneState == ~(dragging /\ resizing)

\* C16: after a press on the drag handle made while the panel was docked, no
\* pointer-move before the next pointer-up changes the position, even if the
\* panel is undocked in between.
C16_DockedPressNeverDrags ==
  [][ (lastOp'.op = "onMouseMove" /\ panelHist.pressDocked) =>
        position' = position ]_vars

PanelZoomClick == lastOp'.op \in {"panelZoomIn", "panelZoomOut"}

\* C17: panelZoom starts at 1, stays within [0.5, 2.0] and is a whole
\* multiple of 0.1; a zoom-in click adds exactly 0.1 and a zoom-out click
\* takes exactly 0.1 away, unless that would leave the range, in which case
\* the value is the bound.
C17_PanelZoomSteps ==
  /\ [](/\ panelZoom \in MinPanelZoom .. MaxPanelZoom
        /\ panelZoom % PanelZoomStep = 0)
  /\ [][ /\ lastOp'.op = "panelZoomIn" =>
              panelZoom' = IF panelZoom + PanelZoomStep <= MaxPanelZoom
                           THEN panelZoom + PanelZoomStep ELSE MaxPanelZoom
         /\ lastOp'.op = "panelZoomOut" =>
              panelZoom' = IF panelZoom - PanelZoomStep >= MinPanelZoom
                           THEN panelZoom - PanelZoomStep ELSE MinPanelZoom ]_vars

\* a zoom-out click whose floating-point sum came out off the multiple has
\* brought the panel zoom down to its lower bound
C17_Witness ==
  /\ lastOp.op = "panelZoomOut"
  /\ lastOp.a # 0
  /\ panelZoom = MinPanelZoom

Layers == {BackLayer, FrontLayer}

\* C18: a panel zoom click changes neither leftScale, rightScale nor
\* zoomDiff; a primary zoom change or a zoom-link toggle does not change
\* panelZoom; and while the panel is visible every loaded side has its mirror
\* in exactly one layer, rendered at that side's primary scale times panelZoom.
C18_PanelZoomIndependent ==
  /\ [][ /\ PanelZoomClick => UNCHANGED <<leftScale, rightScale, zoomDiff>>
         /\ lastOp'.op \in {"changeLeftZoom", "changeRightZoom", "toggleSyncZoom"}
              => panelZoom' = panelZoom ]_vars
  /\ [](/\ \A l \in Layers :
             /\ l.side = "left" => l.scale = leftScale * panelZoom
             /\ l.side = "right" => l.scale = rightScale * panelZoom
        /\ (showContrast /\ leftPDF # NoFile) =>
             (BackLayer.side = "left") # (FrontLayer.side = "left")
        /\ (showContrast /\ rightPDF # NoFile) =>
             (BackLayer.side = "right") # (FrontLayer.side = "right"))

\* both mirrors are shown, right in front, the panel zoomed and the primary
\* scales different from each other after a primary zoom change
C18_Witness ==
  /\ lastOp.op = "changeLeftZoom"
  /\ showContrast /\ frontDoc = "right"
  /\ leftPDF # NoFile /\ rightPDF # NoFile
  /\ leftScale # rightScale
  /\ panelZoom = MaxPanelZoom

\* C19: while the panel is visible a scroll event of a primary container
\* leaves the mirror of the same side at that container's scrollTop and the
\* other mirror unchanged; when the panel becomes visible the mirror of every
\* loaded side is at the scrollTop of its primary container; while the panel
\* is not visible no mirror is written.
C19_MirrorsFollowPrimaries ==
  [][ /\ (lastOp'.op = "onLeftScroll" /\ showContrast) =>
           /\ overlayLeftRef'.scrollTop = leftContainerRef.scrollTop
           /\ overlayRightRef' = overlayRightRef
      /\ (lastOp'.op = "onRightScroll" /\ showContrast) =>
           /\ overlayRightRef'.scrollTop = rightContainerRef.scrollTop
           /\ overlayLeftRef' = overlayLeftRef
      /\ (lastOp'.op = "toggleContrast" /\ showContrast') =>
           /\ leftContainerRef.current =>
                overlayLeftRef'.scrollTop = leftContainerRef.scrollTop
           /\ rightContainerRef.current =>
                overlayRightRef'.scrollTop = rightContainerRef.scrollTop
      /\ ~showContrast' => lastMirrorWrite' = NoMirrorWrite ]_vars

\* the operations of the overlay panel
OverlayOps ==
  {"toggleContrast", "toggleFrontDoc", "onMirrorLoadSuccess", "onMouseDown",
   "onMouseDownOffHandle", "startResize", "onMouseMove", "onMouseUp",
   "toggleDocked", "panelZoomIn", "panelZoomOut"}

\* C20: no operation of the overlay (show / hide with its mirror sync, front
\* toggle, drag, resize, dock toggle, panel zoom) changes a primary
\* container, scrollDiff or the isSyncing latch; and in a step that handles a
\* primary scroll event, where the mirror listener runs, the scrolled
\* container and scrollDiff are unchanged, the other primary container
\* changes only by the paired write of the scroll handler and the latch only
\* under the handler's guard.
C20_OverlayNeverFeedsBack ==
  [][ /\ lastOp'.op \in OverlayOps =>
           UNCHANGED <<leftContainerRef, rightContainerRef, scrollDiff, isSyncing,
                       pendingScroll>>
      /\ lastOp'.op = "onLeftScroll" =>
           /\ UNCHANGED <<leftContainerRef, scrollDiff>>
           /\ rightContainerRef' # rightContainerRef =>
                /\ lastWrite'.side = "right"
                /\ rightContainerRef'.scrollTop = ClampScroll(lastWrite'.value)
           /\ isSyncing' # isSyncing => ScrollGuard
      /\ lastOp'.op = "onRightScroll" =>
           /\ UNCHANGED <<rightContainerRef, scrollDiff>>
           /\ leftContainerRef' # leftContainerRef =>
                /\ lastWrite'.side = "left"
                /\ leftContainerRef'.scrollTop = ClampScroll(lastWrite'.value)
           /\ isSyncing' # isSyncing => ScrollGuard ]_vars

\* the panel has been dragged while the primaries are scrolled, linked with
\* an offset and the latch is set
C20_Witness ==
  /\ lastOp.op = "onMouseMove"
  /\ showContrast /\ dragging
  /\ position # [x |-> 24, y |-> 24]
  /\ overlayLeftRef.current /\ overlayRightRef.current
  /\ syncScroll /\ scrollDiff # 0 /\ isSyncing
  /\ leftContainerRef.scrollTop # 0

(* --------------------------- C21: intake ------------------------------- *)

IntakeOps == {"handleFileChange", "handleDrop", "handleBothFilesChange"}

\* C21: a file that is not application/pdf is ignored on every intake path:
\* an intake event that delivers no PDF leaves both document slots as they
\* were, and no slot ever holds a file that is not a PDF.
C21_NonPdfIgnored ==
  /\ [](leftPDF \notin NonPdfFiles /\ rightPDF \notin NonPdfFiles)
  /\ [][lastOp'.op \in IntakeOps /\ lastOp'.a = 0 => UNCHANGED docVars]_vars

(* --------------------------- C22, C23: labels --------------------------- *)

\* C22: no label of the list has a row of the report with non-empty text on
\* both sides.
C22_NoCompletedLabelOffered ==
  \A i \in DOMAIN labels : \A j \in DOMAIN summary :
    summary[j].label = labels[i] =>
      ~(Truthy(summary[j].left) /\ Truthy(summary[j].right))

\* C23: the list has no label twice and the report has at most one row for a
\* label.
C23_NoDuplicates ==
  /\ \A i, j \in DOMAIN labels : i # j => labels[i] # labels[j]
  /\ \A i, j \in DOMAIN summary : i # j => summary[i].label # summary[j].label

\* Poliza left the list and was added back at its end, and the report has a
\* row for each label, one of them with text on the right side only
C23_Witness ==
  /\ lastOp.op = "addNewLabel"
  /\ labels = <<"Inicio", "Poliza">>
  /\ Len(summary) = 2
  /\ \E j \in DOMAIN summary : Truthy(summary[j].right) /\ ~Truthy(summary[j].left)

(* ------------------------ C24: the two layers -------------------------- *)

OtherSide(side) == IF side = "left" THEN "right" ELSE "left"

Loaded(side) == IF side = "left" THEN leftPDF # NoFile ELSE rightPDF # NoFile

\* C24: while the panel is visible, the half-opacity layer painted on top
\* shows the document of frontDoc (when that slot is full) and nothing else,
\* the full-opacity layer beneath shows the other document (when that slot is
\* full) and nothing else, and the two layers never show the same side; a
\* click on the front button flips frontDoc, exchanges what the two layers
\* show, and leaves position, size, docked, panelZoom, the gesture state and
\* every state of App as they were.
C24_FrontLayering ==
  /\ [](showContrast =>
         /\ FrontLayer.side = (IF Loaded(frontDoc) THEN frontDoc ELSE "none")
         /\ BackLayer.side =
              (IF Loaded(OtherSide(frontDoc)) THEN OtherSide(frontDoc) ELSE "none")
         /\ (FrontLayer.side = BackLayer.side => FrontLayer = NoLayer))
  /\ [][lastOp'.op = "toggleFrontDoc" =>
          /\ frontDoc' = OtherSide(frontDoc)
          /\ FrontLayer' = BackLayer
          /\ BackLayer' = FrontLayer
          /\ UNCHANGED <<panelVars, panelZoom, zoomVars, docVars, scrollVars>>]_vars

\* the front button was clicked with both documents loaded, after the panel
\* was docked and zoomed: the right document is in the front layer now
C24_Witness ==
  /\ lastOp.op = "toggleFrontDoc"
  /\ frontDoc = "right"
  /\ FrontLayer.side = "right"
  /\ BackLayer.side = "left"
  /\ docked
  /\ panelZoom # InitPanelZoom

(* ------------------------ C25: latch release ---------------------------- *)

\* C25: a scroll handler that passes its guard leaves with the latch set and
\* one more release scheduled, and any corrective write it makes is made
\* under the latch; only the scheduled callback clears the latch; and every
\* time the latch is set it is released later, also when the paired container
\* is absent or the link is switched off in between.
C25_LatchSetThenReleased ==
  /\ [][(LeftScrollStep \/ RightScrollStep) /\ ScrollGuard =>
          isSyncing' /\ timers' = timers + 1]_vars
  /\ [][lastWrite'.side # "none" /\ (LeftScrollStep \/ RightScrollStep) =>
          isSyncing']_vars
  /\ [][isSyncing /\ ~isSyncing' => lastOp'.op = "releaseLatch"]_vars
  /\ (isSyncing ~> ~isSyncing)

\* a handler has set the latch with no paired container to write to, and the
\* link was switched off before the release
C25_Witness ==
  /\ isSyncing
  /\ timers > 0
  /\ ~syncScroll
  /\ ~rightContainerRef.current

(* --------------------- C26: pointer-move while idle --------------------- *)

\* C26: while the panel is neither dragging nor resizing, a pointer-move
\* changes none of position, size, docked and panelZoom.
C26_IdleMoveFrame ==
  [][Idle /\ lastOp'.op = "onMouseMove" =>
       UNCHANGED <<position, size, docked, panelZoom>>]_vars

\* the pointer moved over the floating panel after a drag and a resize had
\* ended, to a place other than where the panel is
C26_Witness ==
  /\ lastOp.op = "onMouseMove"
  /\ Idle /\ ~docked /\ showContrast
  /\ position # [x |-> 24, y |-> 24]
  /\ size.wRatio # Ratio(25, 100)
  /\ lastOp.a - dragOffset.x # position.x

(* ---------------------- C27: zoom with the link off --------------------- *)

\* C27: with the zoom link off, changeLeftZoom changes leftScale only and
\* changeRightZoom changes rightScale only: the other scale, zoomDiff and the
\* link itself stay as they were.
C27_UnlinkedZoomFrame ==
  [][ /\ (~syncZoom /\ LeftZoomStep) =>
           /\ leftScale' = ClampScale(leftScale + lastOp'.a)
           /\ UNCHANGED <<rightScale, zoomDiff, syncZoom>>
      /\ (~syncZoom /\ RightZoomStep) =>
           /\ rightScale' = ClampScale(rightScale + lastOp'.a)
           /\ UNCHANGED <<leftScale, zoomDiff, syncZoom>> ]_vars

\* the left scale was changed with the link off while the stored offset was
\* not the difference of the scales, before or after
C27_Witness ==
  /\ lastOp.op = "changeLeftZoom"
  /\ ~syncZoom
  /\ zoomDiff # 0
  /\ zoomDiff # rightScale - leftScale
  /\ zoomDiff # rightScale - (leftScale - lastOp.a)
  /\ StrictlyInside(leftScale)

(* ------------------------ C28: zoom direction --------------------------- *)

\* C28: a changeLeftZoom or changeRightZoom with a positive delta decreases
\* neither leftScale nor rightScale, and one with a negative delta increases
\* neither, with the link on or off.
C28_DirectionPreserved ==
  [][ /\ ((LeftZoomStep \/ RightZoomStep) /\ lastOp'.a > 0) =>
           (leftScale' >= leftScale /\ rightScale' >= rightScale)
      /\ ((LeftZoomStep \/ RightZoomStep) /\ lastOp'.a < 0) =>
           (leftScale' <= leftScale /\ rightScale' <= rightScale) ]_vars

(* -------------------- C29: the two variants agree ----------------------- *)

SameScales ==
  /\ variantRuns.app.leftScale = variantRuns.part000.leftScale
  /\ variantRuns.app.rightScale = variantRuns.part000.rightScale

\* C29 as stated: after every step of every sequence of zoom changes and
\* link toggles, App.tsx and part_000 have the same leftScale and the same
\* rightScale.
C29_VariantsAgree == SameScales

\* C29, amended: the two variants have the same scales after every step up
\* to the first scale change after which the zoomDiff that App.tsx recomputes
\* is not the zoomDiff it had.
C29_VariantsAgreeUntilDrift == ~variantRuns.drifted => SameScales

\* a scale was changed with the link on and an offset other than 0, and the
\* offset App.tsx recomputed was the one it had
C29_Witness ==
  /\ lastOp.op = "bothChangeLeftZoom"
  /\ ~variantRuns.drifted
  /\ variantRuns.app.syncZoom
  /\ variantRuns.app.zoomDiff # 0
  /\ variantRuns.app.leftScale # FloatOfTenths(MinScale)
  /\ variantRuns.app.leftScale # FloatOfTenths(MaxScale)

(* ----------------------- C30: visiblePages ------------------------------ *)

ViewerSides == {side \in Sides : FileOf(side) # NoFile}

\* C30: in each pane that has a document, visiblePages is sorted ascending
\* without duplicates and holds only pages of 1 .. numPages; and while the
\* pane keeps a document, through loads and replacements, no page leaves
\* visiblePages.
C30_VisiblePagesWellFormed ==
  /\ [](\A side \in ViewerSides :
          LET pages == ViewerOf(side).visiblePages
          IN  /\ \A i, j \in DOMAIN pages : i < j => pages[i] < pages[j]
              /\ \A i \in DOMAIN pages : pages[i] \in 1 .. ViewerOf(side).numPages)
  /\ [][\A side \in Sides :
          (FileOf(side) # NoFile /\ FileOf(side)' # NoFile) =>
            Elements(ViewerOf(side).visiblePages)
              \subseteq Elements(ViewerOf(side)'.visiblePages)]_vars

====
